---- MODULE Spec2Model ----
(***************************************************************************)
(* FangraphStatsGUI: a model of the two flows of the repository.           *)
(*                                                                         *)
(*   gui.py          MainWindow: CSV import, row selection in a table      *)
(*                   view, the selection-changed slot that reports the     *)
(*                   two group averages, the Clear button.                 *)
(*   excel_export.py the batch script that removes old workbooks and       *)
(*                   writes one workbook per interval of num_days.         *)
(*                                                                         *)
(* An attribute that Python has not assigned yet is the empty tuple <<>>,  *)
(* an assigned one is the 1-tuple <<value>>.                               *)
(***************************************************************************)
EXTENDS Integers, Sequences, FiniteSets, TLC

VARIABLES
    \* ---- gui.py ----
    session,        \* "running" | "aborted" (unhandled exception)
    dataframe,      \* self._dataframe: <<>> or <<df>>
    viewModel,      \* dataframe wrapped by the table view's PandasModel
    viewSel,        \* rows selected in the view's current selection model
    selected_rows,  \* self._selected_rows
    selIdx,         \* self._selection_indexes: <<>> or <<set of rows>>
    statusMsg,      \* status bar: <<>> or <<rows shown>>
    text,           \* contents of results_widget
    notice,         \* last QErrorMessage shown, "none" when there was none
    traceback,      \* an exception left a slot or the constructor unhandled
    lastUse,        \* last iloc of selection(): <<>> or <<[idx, nrows, stale]>>
    lastOp,         \* the user action handled last
    \* ---- excel_export.py ----
    exPc,           \* "remove" | "export" | "done" | "aborted"
    num_days,       \* the interval identifiers of this run, in loop order
    db,             \* day -> <<>> (no file) or <<sequence of table names>>
    xlsx,           \* day -> "absent" | "dir" | "old" | "new"
    book,           \* day -> sheets of the workbook saved under that name
    globbed,        \* matches of glob() still to be removed
    dayIdx,         \* position of the export loop in num_days
    tables,         \* df['name'] of the open interval
    tableIdx,       \* position of the table loop
    writer,         \* sheets handed to the ExcelWriter so far
    dbCreated,      \* days whose database file sqlite3.connect created
    exError         \* exception that ended the run, "none" when there is none

guiVars == <<session, dataframe, viewModel, viewSel, selected_rows, selIdx,
             statusMsg, text, notice, traceback, lastUse, lastOp>>
exVars  == <<exPc, num_days, db, xlsx, book, globbed, dayIdx, tables,
             tableIdx, writer, dbCreated, exError>>
vars    == <<guiVars, exVars>>

-----------------------------------------------------------------------------
(* Bounds and input domains                                                *)

MaxRows == 3

\* Rows a CSV file may hold: those of the dataset Group_1=[1,2,3],
\* Group_2=[10,20,30].
RowTypes == { [Group_1 |-> 1, Group_2 |-> 10], [Group_1 |-> 2, Group_2 |-> 20],
              [Group_1 |-> 3, Group_2 |-> 30] }

\* The CSV files read: up to MaxRows rows, in non-decreasing Group_1 order.
Datasets ==
    { df \in UNION { [1..k -> RowTypes] : k \in 0..MaxRows } :
        \A i, j \in DOMAIN df : i < j => df[i].Group_1 <= df[j].Group_1 }

Columns == {"Group_1", "Group_2"}

MaxDays == 2
MaxTables == 2

\* Interval identifiers, and the tables a fangraph database may hold.
Days == 1..MaxDays
TableNames == {"batting", "pitching", "order"}

-----------------------------------------------------------------------------
(* gui.py: pure parts                                                      *)

RECURSIVE SumOver(_, _)
SumOver(f, S) ==
    IF S = {} THEN 0
    ELSE LET i == CHOOSE j \in S : TRUE IN f[i] + SumOver(f, S \ {i})

\* PandasModel.rowCount
rowCount(df) == Len(df)

RowIndexes(df) == 0 .. (rowCount(df) - 1)

\* QTableView.selectedIndexes() under SelectRows behaviour: one model index
\* per cell of every selected row.
selectedIndexes(sel) == sel \X Columns

\* list(set([row.row() for row in selection]))
SelectionRows(indexes) == { ix[1] : ix \in indexes }

\* self._dataframe.iloc[idx] raises IndexError unless every position exists.
ilocOk(df, idx) == idx \subseteq RowIndexes(df)

\* MainWindow.selection: the rows of df at positions idx (0-based).
selection(df, idx) == [i \in idx |-> df[i + 1]]

\* Series.mean(): nan for no rows, else sum / count (kept as a fraction).
mean(sel, col) ==
    IF DOMAIN sel = {} THEN [nan |-> TRUE, num |-> 0, den |-> 1]
    ELSE [nan |-> FALSE,
          num |-> SumOver([i \in DOMAIN sel |-> sel[i][col]], DOMAIN sel),
          den |-> Cardinality(DOMAIN sel)]

\* grp1_avg and grp2_avg; grp1_avg_swapped is grp1_avg reading the other column.
grp1_avg_swapped(df, idx) == mean(selection(df, idx), "Group_2")
grp1_avg(df, idx) == mean(selection(df, idx), "Group_1")

grp2_avg(df, idx) == mean(selection(df, idx), "Group_2")

\* '%f' prints six digits after the point, rounding half to even.
Micro == 1000000

FormatF(avg) ==
    IF avg.nan THEN [nan |-> TRUE, micro |-> 0]
    ELSE LET scaled == avg.num * Micro
             q == scaled \div avg.den
             r == scaled % avg.den
         IN [nan |-> FALSE,
             micro |-> IF 2 * r < avg.den THEN q
                       ELSE IF 2 * r > avg.den THEN q + 1
                       ELSE IF q % 2 = 0 THEN q ELSE q + 1]

\* The text selected_rows_changed hands to display_results.
SummaryText(df, idx) ==
    <<"summary", selection(df, idx),
      FormatF(grp1_avg(df, idx)), FormatF(grp2_avg(df, idx))>>

InitialText == <<"Results">>
EmptyText   == <<"">>

-----------------------------------------------------------------------------
(* gui.py: state machine                                                   *)

ExIdle ==
    /\ exPc = "done" /\ num_days = <<>> /\ db = <<>> /\ xlsx = <<>>
    /\ book = <<>> /\ globbed = {} /\ dayIdx = 1 /\ tables = <<>>
    /\ tableIdx = 1 /\ writer = <<>> /\ dbCreated = {} /\ exError = "none"

\* MainWindow.__init__ returned: started without a file, or with a file that
\* read_csv parsed.  (When read_csv raises, the exception leaves the
\* constructor and the script ends before a window exists.)
InitGui ==
    /\ \/ /\ dataframe = <<>> /\ viewModel = <<>> /\ lastOp = "init"
       \/ /\ \E df \in Datasets : dataframe = <<df>> /\ viewModel = <<df>>
          /\ lastOp = "import_ok"
    /\ session = "running"
    /\ traceback = FALSE
    /\ viewSel = {}
    /\ selected_rows = <<{}>>
    /\ selIdx = <<>>
    /\ statusMsg = <<>>
    /\ text = InitialText
    /\ notice = "none"
    /\ lastUse = <<>>
    /\ ExIdle

\* What a slot's unhandled exception does to the session depends on the
\* toolkit build: it is printed and the event loop goes on, or the
\* application is aborted.
UnhandledOutcomes == {"running", "aborted"}

\* MainWindow.selected_rows_changed, run while the view's selection is sel.
\* Yields the attributes it writes; raised: iloc raised IndexError at the
\* first selection() call, after _selection_indexes was assigned.  use records
\* the iloc: the positions applied, the rows of the dataframe they were
\* applied to, and whether the attribute overwritten held a position that
\* the dataframe does not have.
selected_rows_changed(df, sel, old) ==
    LET idx == SelectionRows(selectedIndexes(sel))
        use == [idx |-> idx, nrows |-> rowCount(df),
                stale |-> old # <<>> /\ ~ ilocOk(df, old[1])]
    IN IF ilocOk(df, idx)
       THEN [selIdx |-> <<idx>>, statusMsg |-> <<idx>>,
             text |-> <<SummaryText(df, idx)>>, use |-> <<use>>,
             raised |-> FALSE]
       ELSE [selIdx |-> <<idx>>, statusMsg |-> <<>>, text |-> <<>>,
             use |-> <<use>>, raised |-> TRUE]

\* MainWindow.load_dataframe for self._dataframe = frame.  setModel gives the
\* view a new model and a new selection model with nothing selected.  The
\* attribute is read before isinstance can answer, so an unassigned
\* _dataframe raises AttributeError.
load_dataframe(frame) ==
    IF frame = <<>>
    THEN [loaded |-> FALSE, raised |-> TRUE]
    ELSE [loaded |-> TRUE, raised |-> FALSE]

\* import_dialog, dialog accepted, read_csv returns df; then load_dataframe:
\* the view gets a new model and with it a new, empty selection model.
\* ImportAccepted_noload is the same import without the load_dataframe call.
ImportAccepted_noload(df) ==
    /\ session = "running"
    /\ dataframe' = <<df>>
    /\ lastOp' = "import_ok"
    /\ UNCHANGED <<viewModel, viewSel, session, selected_rows, selIdx,
                   statusMsg, text, notice, traceback, lastUse>>
    /\ UNCHANGED exVars
ImportAccepted(df) ==
    /\ session = "running"
    /\ dataframe' = <<df>>
    /\ LET l == load_dataframe(dataframe')
       IN /\ l.loaded
          /\ viewModel' = dataframe'
          /\ viewSel' = {}
    /\ lastOp' = "import_ok"
    /\ UNCHANGED <<session, selected_rows, selIdx, statusMsg, text, notice,
                   traceback, lastUse>>
    /\ UNCHANGED exVars

\* import_dialog, dialog accepted, read_csv raises (malformed file, missing
\* path): the exception leaves the slot before load_dataframe is reached.
ImportFailed ==
    /\ session = "running"
    /\ traceback' = TRUE
    /\ session' \in UnhandledOutcomes
    /\ lastOp' = "import_fail"
    /\ UNCHANGED <<dataframe, viewModel, viewSel, selected_rows, selIdx,
                   statusMsg, text, notice, lastUse>>
    /\ UNCHANGED exVars

\* import_dialog, dialog rejected: "Nothing Loaded" is printed.
ImportCancelled ==
    /\ session = "running"
    /\ UNCHANGED guiVars
    /\ UNCHANGED exVars

\* The user changes the selected rows of the view to S; the selection model
\* emits selectionChanged and selected_rows_changed runs.
SelectRows(S) ==
    /\ session = "running"
    /\ viewModel # <<>>
    /\ S \subseteq RowIndexes(viewModel[1])
    /\ S # viewSel
    /\ viewSel' = S
    /\ LET h == selected_rows_changed(dataframe[1], S, selIdx)
       IN /\ selIdx' = h.selIdx
          /\ lastUse' = h.use
          /\ IF h.raised
             THEN /\ traceback' = TRUE
                  /\ session' \in UnhandledOutcomes
                  /\ UNCHANGED <<statusMsg, text>>
             ELSE /\ statusMsg' = h.statusMsg
                  /\ text' = h.text[1]
                  /\ UNCHANGED <<traceback, session>>
    /\ lastOp' = "select"
    /\ UNCHANGED <<dataframe, viewModel, selected_rows, notice>>
    /\ UNCHANGED exVars

\* clear_selection: table_widget.clearSelection() emits selectionChanged
\* only when rows were selected; the slot then runs before display_results('').
clear_selection ==
    /\ session = "running"
    /\ selected_rows' = <<{}>>
    /\ viewSel' = {}
    /\ lastOp' = "clear"
    /\ IF viewSel # {}
       THEN LET h == selected_rows_changed(dataframe[1], {}, selIdx)
            IN /\ selIdx' = h.selIdx
               /\ lastUse' = h.use
               /\ IF h.raised
                  THEN /\ traceback' = TRUE
                       /\ session' \in UnhandledOutcomes
                       /\ UNCHANGED <<statusMsg, text>>
                  ELSE /\ statusMsg' = h.statusMsg
                       /\ text' = EmptyText
                       /\ UNCHANGED <<traceback, session>>
       ELSE /\ text' = EmptyText
            /\ UNCHANGED <<selIdx, lastUse, statusMsg, traceback, session>>
    /\ UNCHANGED <<dataframe, viewModel, notice>>
    /\ UNCHANGED exVars

NextGui ==
    \/ \E df \in Datasets : ImportAccepted(df)
    \/ ImportFailed
    \/ ImportCancelled
    \/ \E S \in SUBSET (0 .. (MaxRows - 1)) : SelectRows(S)
    \/ clear_selection

SpecGui == InitGui /\ [][NextGui]_vars

-----------------------------------------------------------------------------
(* excel_export.py                                                         *)

GuiIdle ==
    /\ session = "running" /\ dataframe = <<>> /\ viewModel = <<>>
    /\ viewSel = {} /\ selected_rows = <<{}>> /\ selIdx = <<>>
    /\ statusMsg = <<>> /\ text = InitialText /\ notice = "none"
    /\ traceback = FALSE /\ lastUse = <<>> /\ lastOp = "init"

\* Table lists sqlite_master may return: names without repetition.
TableLists ==
    { s \in UNION { [1..k -> TableNames] : k \in 0..MaxTables } :
        \A i, j \in DOMAIN s : i # j => s[i] # s[j] }

\* num_days as compile_db supplies it: distinct day counts, increasing.
DayLists ==
    { s \in UNION { [1..k -> Days] : k \in 0..MaxDays } :
        \A i, j \in DOMAIN s : i < j => s[i] < s[j] }

\* The rows of a table, as SELECT * returns them.
TableData(t) ==
    IF t = "batting"
    THEN [header |-> <<"Name", "AVG">>, rows |-> << <<"ruth", "342">>, <<"cobb", "366">> >>]
    ELSE IF t = "pitching"
    THEN [header |-> <<"Name", "ERA">>, rows |-> << <<"young", "263">> >>]
    ELSE [header |-> <<"Id">>, rows |-> << >>]

\* "SELECT * FROM " + sheet_name puts the name into the statement unquoted:
\* a name that is an SQL keyword makes read_sql_query raise.
Keywords == {"order"}
read_sql_query_ok(t) == t \notin Keywords

\* dft.to_excel(writer, sheet_name=sheet_name, index=False): a header row,
\* then the rows, no index column.
\* to_excel_with_index is the call with pandas' default index=True.
to_excel_with_index(t) ==
    [name |-> t,
     cells |-> << <<"">> \o TableData(t).header >> \o
               [i \in 1..Len(TableData(t).rows) |-> <<"idx">> \o TableData(t).rows[i]]]
to_excel(t) ==
    [name |-> t, cells |-> <<TableData(t).header>> \o TableData(t).rows]

\* The table loop over names from position i on, the writer holding w:
\* the sheets written, and whether a read raised.
\* TableLoop_skip is the loop passing over a table it cannot read.
RECURSIVE TableLoop_skip(_, _, _)
TableLoop_skip(names, i, w) ==
    IF i > Len(names) THEN [sheets |-> w, raised |-> FALSE]
    ELSE IF ~ read_sql_query_ok(names[i]) THEN TableLoop_skip(names, i + 1, w)
    ELSE TableLoop_skip(names, i + 1, Append(w, to_excel(names[i])))
RECURSIVE TableLoop(_, _, _)
TableLoop(names, i, w) ==
    IF i > Len(names) THEN [sheets |-> w, raised |-> FALSE]
    ELSE IF ~ read_sql_query_ok(names[i]) THEN [sheets |-> w, raised |-> TRUE]
    ELSE TableLoop(names, i + 1, Append(w, to_excel(names[i])))

\* glob('fangraph_*days.xlsx'): every directory entry of that name.
glob(x) == { d \in Days : x[d] # "absent" }

InitExport ==
    /\ exPc = "remove"
    /\ num_days \in DayLists
    /\ db \in [Days -> {<<>>} \cup { <<s>> : s \in TableLists }]
    /\ xlsx \in [Days -> {"absent", "dir"}]
    /\ Cardinality({ d \in Days : xlsx[d] = "dir" }) <= 1
    /\ book = [d \in Days |-> <<>>]
    /\ globbed = glob(xlsx)
    /\ dayIdx = 1
    /\ tables = <<>>
    /\ tableIdx = 1
    /\ writer = <<>>
    /\ dbCreated = {}
    /\ exError = "none"
    /\ GuiIdle

\* shutil.rmtree(f) on a directory removes it.
RmtreeDir(d) ==
    /\ exPc = "remove"
    /\ d \in globbed
    /\ xlsx[d] = "dir"
    /\ xlsx' = [xlsx EXCEPT ![d] = "absent"]
    /\ globbed' = globbed \ {d}
    /\ UNCHANGED <<exPc, num_days, db, book, dayIdx, tables, tableIdx, writer,
                   dbCreated, exError>>
    /\ UNCHANGED guiVars

\* shutil.rmtree(f) on a regular file raises NotADirectoryError; nothing
\* catches it and the script ends, the file still there.
RmtreeFile(d) ==
    /\ exPc = "remove"
    /\ d \in globbed
    /\ xlsx[d] \in {"old", "new"}
    /\ exPc' = "aborted"
    /\ exError' = "NotADirectoryError"
    /\ UNCHANGED <<num_days, db, xlsx, book, globbed, dayIdx, tables, tableIdx,
                   writer, dbCreated>>
    /\ UNCHANGED guiVars

\* The removal loop has gone through every match.
RemoveDone ==
    /\ exPc = "remove"
    /\ globbed = {}
    /\ exPc' = IF num_days = <<>> THEN "done" ELSE "export"
    /\ UNCHANGED <<num_days, db, xlsx, book, globbed, dayIdx, tables, tableIdx,
                   writer, dbCreated, exError>>
    /\ UNCHANGED guiVars

\* One pass of "for day in num_days": connect (which creates the database
\* file when there is none), enumerate the tables, write a sheet per table,
\* save.  A read that raises ends the script before writer.save().
ExportInterval ==
    /\ exPc = "export"
    /\ dayIdx <= Len(num_days)
    /\ LET day == num_days[dayIdx]
           conn == IF db[day] = <<>> THEN << <<>> >> ELSE db[day]
           loop == TableLoop(conn[1], 1, <<>>)
       IN /\ db' = [db EXCEPT ![day] = conn]
          /\ dbCreated' = IF db[day] = <<>> THEN dbCreated \cup {day} ELSE dbCreated
          /\ tables' = conn[1]
          /\ writer' = loop.sheets
          /\ tableIdx' = Len(loop.sheets) + 1
          /\ IF loop.raised
             THEN /\ exPc' = "aborted"
                  /\ exError' = "DatabaseError"
                  /\ UNCHANGED <<xlsx, book, dayIdx>>
             ELSE /\ book' = [book EXCEPT ![day] = loop.sheets]
                  /\ xlsx' = [xlsx EXCEPT ![day] = "new"]
                  /\ dayIdx' = dayIdx + 1
                  /\ exPc' = IF dayIdx = Len(num_days) THEN "done" ELSE "export"
                  /\ UNCHANGED exError
    /\ UNCHANGED <<num_days, globbed>>
    /\ UNCHANGED guiVars

\* The script is run again, compile_db now supplying nd; the files the
\* earlier run left are on disk.
StartRun(nd) ==
    /\ exPc \in {"done", "aborted"}
    /\ num_days' = nd
    /\ xlsx' = [d \in Days |-> IF xlsx[d] = "new" THEN "old" ELSE xlsx[d]]
    /\ globbed' = glob(xlsx')
    /\ exPc' = "remove"
    /\ dayIdx' = 1
    /\ tables' = <<>>
    /\ tableIdx' = 1
    /\ writer' = <<>>
    /\ dbCreated' = {}
    /\ exError' = "none"
    /\ UNCHANGED <<db, book>>
    /\ UNCHANGED guiVars

NextExport ==
    \/ \E d \in Days : RmtreeDir(d)
    \/ \E d \in Days : RmtreeFile(d)
    \/ RemoveDone
    \/ ExportInterval
    \/ \E nd \in DayLists : StartRun(nd)

SpecExport == InitExport /\ [][NextExport]_vars

-----------------------------------------------------------------------------
(* Properties of the interactive flow (checked under SpecGui)              *)

\* The sum of a column over the rows at positions S, by walking the rows.
RECURSIVE ColumnSum(_, _, _, _)
ColumnSum(df, S, col, k) ==
    IF k = 0 THEN 0
    ELSE (IF (k - 1) \in S THEN df[k][col] ELSE 0) + ColumnSum(df, S, col, k - 1)

\* shown is the six-decimal number nearest to the mean of col over S.
ShowsMean(shown, df, S, col) ==
    LET n == Cardinality(S)
        d == shown.micro * n - ColumnSum(df, S, col, Len(df)) * 1000000
    IN /\ ~ shown.nan
       /\ 2 * d <= n
       /\ 2 * d >= 0 - n

ScenarioDF ==
    << [Group_1 |-> 1, Group_2 |-> 10], [Group_1 |-> 2, Group_2 |-> 20],
       [Group_1 |-> 3, Group_2 |-> 30] >>

\* C1: for every loaded dataset and every non-empty set S of selected rows,
\* the report that selected_rows_changed displays lists the rows at exactly
\* the positions in S, and its two averages are the arithmetic means
\* (sum / |S|) of Group_1 and of Group_2 over those rows, as '%f' prints
\* them; Group_1=[1,2,3], Group_2=[10,20,30] with S={0,1} shows 1.500000 and
\* 15.000000.
C1_ReportedMeans ==
    (lastOp = "select" /\ viewSel # {}) =>
        /\ session = "running"
        /\ text[1] = "summary"
        /\ text[2] = [i \in viewSel |-> dataframe[1][i + 1]]
        /\ ShowsMean(text[3], dataframe[1], viewSel, "Group_1")
        /\ ShowsMean(text[4], dataframe[1], viewSel, "Group_2")
        /\ (dataframe[1] = ScenarioDF /\ viewSel = {0, 1} =>
                text[3].micro = 1500000 /\ text[4].micro = 15000000)

C1_Witness ==
    /\ lastOp = "select"
    /\ dataframe = <<ScenarioDF>>
    /\ viewSel = {0, 1}
    /\ text[1] = "summary"
    /\ text[3].micro = 1500000
    /\ text[4].micro = 15000000

NoStoredIndex(s) == s = <<>> \/ s = <<{}>>

\* C2: once an import has replaced the dataset, the stored selection
\* (_selection_indexes) holds no index chosen under the previous dataset.
C2_ImportResetsSelection ==
    lastOp = "import_ok" => NoStoredIndex(selIdx)

\* C3: after clear_selection the row-selection state (_selected_rows, the
\* view's selection, _selection_indexes) is empty and the results display
\* shows the empty text, whatever happened before.
C3_ClearEmptiesEverything ==
    lastOp = "clear" =>
        /\ selected_rows = <<{}>>
        /\ viewSel = {}
        /\ text = EmptyText
        /\ NoStoredIndex(selIdx)

\* C4: the index list that selection() applies to the dataframe is always
\* a subset of the row indices of the dataset currently loaded.
C4_StoredSelectionValid ==
    (dataframe # <<>> /\ selIdx # <<>>) => selIdx[1] \subseteq RowIndexes(dataframe[1])

\* C5: a failed import leaves dataset, view model and selection as they
\* were, shows an error notice, and the session goes on.
C5_FailedImportSurfaced ==
    lastOp = "import_fail" =>
        /\ notice # "none"
        /\ session = "running"

\* C6: with no dataset loaded, a request that needs one is answered by the
\* notice 'No data loaded!' and no summary is computed.
C6_NoDataNotice ==
    (dataframe = <<>> /\ lastOp \in {"import_fail", "clear"}) =>
        /\ notice = "No data loaded!"
        /\ lastUse = <<>>

\* C10: every summary is computed from positions read from the view in the
\* same invocation, the view shows the dataframe that is indexed, and so
\* every position handed to iloc is a row of that dataframe: no IndexError,
\* also when the attribute still held positions of an earlier, larger
\* dataset.
C10_FreshValidIndexes ==
    /\ viewModel = dataframe
    /\ lastUse # <<>> => lastUse[1].idx \subseteq 0 .. (lastUse[1].nrows - 1)
    /\ lastOp = "select" =>
          /\ session = "running"
          /\ selIdx = <<viewSel>>
          /\ lastUse[1].idx = viewSel
          /\ lastUse[1].nrows = Len(dataframe[1])

C10_Witness ==
    /\ lastOp = "select"
    /\ lastUse # <<>>
    /\ lastUse[1].stale
    /\ viewSel # {}

-----------------------------------------------------------------------------
(* Properties of the export flow (checked under SpecExport)                *)

Saved(d) == xlsx[d] \in {"new", "old"}

\* C7: once the removal loop of a run is over, no workbook file that an
\* earlier run produced is left, so none survives the run.
C7_OldWorkbooksRemoved ==
    exPc # "remove" => \A d \in Days : xlsx[d] # "old"

\* C8: a workbook written for an interval whose database has tables T1..Tk
\* has exactly k sheets, named T1..Tk in enumeration order, each a header
\* row followed by all rows of the table, with no column added.
C8_SheetsMirrorTables ==
    \A d \in Days : Saved(d) =>
        /\ db[d] # <<>>
        /\ Len(book[d]) = Len(db[d][1])
        /\ \A i \in 1..Len(book[d]) :
              LET t == db[d][1][i]
                  c == book[d][i].cells
              IN /\ book[d][i].name = t
                 /\ Len(c) = 1 + Len(TableData(t).rows)
                 /\ c[1] = TableData(t).header
                 /\ \A r \in 1..Len(TableData(t).rows) : c[r + 1] = TableData(t).rows[r]

C8_Witness ==
    \E d \in Days : xlsx[d] = "new" /\ Len(book[d]) = 2 /\ exPc = "done"

====
